---- MODULE Spec2Model ----
(***************************************************************************)
(* ETASCatGen: the catalog generator ETAS_generate_catalog_M_t of          *)
(* cpp/src/catgen_M_t.cpp, called as backend.pyx calls it.                 *)
(*                                                                         *)
(* Numbers.  The code computes in IEEE doubles with std::exp, std::log and *)
(* std::pow.  The model computes the same expressions exactly, on the reals*)
(* on which these functions are closed in a finite representation.  With   *)
(* u = ln 2, a number is one of                                            *)
(*    fin : (n/d) * u^k          (k = 0: a rational)                       *)
(*    exp : exp((n/d) / u)       (n # 0)                                   *)
(*    ln  : (n/d) * ln(an/ad)    (an/ad > 0, not a power of two)           *)
(*    inf : +infinity (n = 1) or -infinity (n = -1)                        *)
(*    nan : IEEE not-a-number                                              *)
(* and the operators below are +, -, *, /, exp, log, pow and the           *)
(* comparisons of IEEE arithmetic on these values (a NaN operand gives NaN,*)
(* every comparison with NaN is false).  Rounding is not modelled.         *)
(***************************************************************************)
EXTENDS Integers, Sequences, FiniteSets, TLC

Abs(x) == IF x < 0 THEN -x ELSE x

Sign(x) == IF x < 0 THEN -1 ELSE IF x > 0 THEN 1 ELSE 0

RECURSIVE GCD(_, _)
GCD(a, b) == IF b = 0 THEN a ELSE GCD(b, a % b)

RECURSIVE IPow(_, _)
IPow(b, e) == IF e = 0 THEN 1 ELSE b * IPow(b, e - 1)

RECURSIVE ILog2(_)
ILog2(x) == IF x <= 1 THEN 0 ELSE 1 + ILog2(x \div 2)

IsPow2(x) == x >= 1 /\ IPow(2, ILog2(x)) = x

Mk(tag, n, d, k, an, ad) ==
    [tag |-> tag, n |-> n, d |-> d, k |-> k, an |-> an, ad |-> ad]

NaN == Mk("nan", 0, 1, 0, 1, 1)

Inf(s) == Mk("inf", s, 1, 0, 1, 1)

Fin(n, d, k) ==
    IF n = 0 THEN Mk("fin", 0, 1, 0, 1, 1)
    ELSE LET g == GCD(Abs(n), Abs(d))
             s == Sign(d)
         IN  Mk("fin", s * (n \div g), s * (d \div g), k, 1, 1)

Rat(n, d) == Fin(n, d, 0)

Int2(n) == Fin(n, 1, 0)

Zero == Int2(0)

One == Int2(1)

(* exp(x / u) for a rational x = n/d; exp(0) = 1 *)
ExpForm(n, d) ==
    IF n = 0 THEN One
    ELSE LET x == Fin(n, d, 0) IN Mk("exp", x.n, x.d, 0, 1, 1)

(* (n/d) * ln(an/ad); ln(2^j) = j * u *)
LnForm(n, d, an, ad) ==
    LET c == Fin(n, d, 0)
        a == Fin(an, ad, 0)
    IN  IF c.n = 0 \/ (a.n = 1 /\ a.d = 1) THEN Zero
        ELSE IF a.d = 1 /\ IsPow2(a.n) THEN Fin(c.n * ILog2(a.n), c.d, 1)
        ELSE IF a.n = 1 /\ IsPow2(a.d) THEN Fin(-(c.n * ILog2(a.d)), c.d, 1)
        ELSE Mk("ln", c.n, c.d, 0, a.n, a.d)

IsNaN(a) == a.tag = "nan"

IsInf(a) == a.tag = "inf"

IsFin(a) == a.tag = "fin"

IsZero(a) == a.tag = "fin" /\ a.n = 0

(* sign of a value that is not NaN *)
SignOf(a) ==
    CASE a.tag = "fin" -> Sign(a.n)
      [] a.tag = "inf" -> a.n
      [] a.tag = "exp" -> 1
      [] a.tag = "ln"  -> Sign(a.n) * (IF a.an > a.ad THEN 1 ELSE -1)

Neg(a) ==
    CASE a.tag = "nan" -> NaN
      [] a.tag = "inf" -> Inf(-a.n)
      [] a.tag = "fin" -> Fin(-a.n, a.d, a.k)
      [] a.tag = "ln"  -> LnForm(-a.n, a.d, a.an, a.ad)

Add(a, b) ==
    CASE IsNaN(a) \/ IsNaN(b) -> NaN
      [] IsInf(a) /\ IsInf(b) -> IF a.n = b.n THEN a ELSE NaN
      [] IsInf(a) /\ ~IsInf(b) -> a
      [] ~IsInf(a) /\ IsInf(b) -> b
      [] IsZero(a) /\ ~IsInf(b) -> b
      [] IsZero(b) /\ ~IsInf(a) /\ ~IsZero(a) -> a
      [] IsFin(a) /\ IsFin(b) /\ a.n # 0 /\ b.n # 0 /\ a.k = b.k ->
            Fin(a.n * b.d + b.n * a.d, a.d * b.d, a.k)

Sub(a, b) == Add(a, Neg(b))

Mul(a, b) ==
    CASE IsNaN(a) \/ IsNaN(b) -> NaN
      [] IsInf(a) \/ IsInf(b) ->
            IF IsZero(a) \/ IsZero(b) THEN NaN ELSE Inf(SignOf(a) * SignOf(b))
      [] IsFin(a) /\ IsFin(b) -> Fin(a.n * b.n, a.d * b.d, a.k + b.k)
      [] IsFin(a) /\ a.k = 0 /\ b.tag = "ln" ->
            LnForm(a.n * b.n, a.d * b.d, b.an, b.ad)
      [] a.tag = "ln" /\ IsFin(b) /\ b.k = 0 ->
            LnForm(a.n * b.n, a.d * b.d, a.an, a.ad)

Div(a, b) ==
    CASE IsNaN(a) \/ IsNaN(b) -> NaN
      [] IsInf(a) /\ IsInf(b) -> NaN
      [] IsInf(a) /\ ~IsInf(b) ->
            Inf(a.n * (IF SignOf(b) < 0 THEN -1 ELSE 1))
      [] ~IsInf(a) /\ IsInf(b) -> Zero
      [] ~IsInf(a) /\ IsZero(b) -> IF IsZero(a) THEN NaN ELSE Inf(SignOf(a))
      [] IsFin(a) /\ IsFin(b) /\ b.n # 0 ->
            Fin(a.n * b.d, a.d * b.n, a.k - b.k)

(* std::exp *)
Exp(a) ==
    CASE IsNaN(a) -> NaN
      [] IsInf(a) -> IF a.n > 0 THEN a ELSE Zero
      [] IsZero(a) -> One
      [] IsFin(a) /\ a.n # 0 /\ a.k = 1 /\ a.d = 1 ->
            IF a.n > 0 THEN Rat(IPow(2, a.n), 1) ELSE Rat(1, IPow(2, -a.n))
      [] IsFin(a) /\ a.n # 0 /\ a.k = -1 -> ExpForm(a.n, a.d)
      [] a.tag = "ln" /\ a.d = 1 ->
            IF a.n > 0 THEN Rat(IPow(a.an, a.n), IPow(a.ad, a.n))
            ELSE Rat(IPow(a.ad, -a.n), IPow(a.an, -a.n))

(* std::log *)
Log(a) ==
    CASE IsNaN(a) -> NaN
      [] IsInf(a) -> IF a.n > 0 THEN a ELSE NaN
      [] IsZero(a) -> Inf(-1)
      [] IsFin(a) /\ a.n < 0 -> NaN
      [] IsFin(a) /\ a.n > 0 /\ a.k = 0 -> LnForm(1, 1, a.n, a.d)
      [] a.tag = "exp" -> Fin(a.n, a.d, -1)

(* std::pow(a, e) for an integral exponent e *)
Pow(a, e) ==
    CASE IsNaN(a) \/ IsNaN(e) -> NaN
      [] IsZero(e) /\ ~IsNaN(a) -> One
      [] IsZero(a) /\ IsFin(e) /\ e.n # 0 ->
            IF e.n < 0 THEN Inf(1) ELSE Zero
      [] IsFin(a) /\ a.n # 0 /\ a.k = 0 /\ IsFin(e) /\ e.n # 0
            /\ e.k = 0 /\ e.d = 1 ->
            IF e.n > 0 THEN Rat(IPow(a.n, e.n), IPow(a.d, e.n))
            ELSE Rat(IPow(a.d, -e.n), IPow(a.n, -e.n))

(* a < b *)
Lt(a, b) ==
    CASE IsNaN(a) \/ IsNaN(b) -> FALSE
      [] IsInf(a) /\ ~IsNaN(b) -> a.n < 0 /\ ~(IsInf(b) /\ b.n < 0)
      [] ~IsInf(a) /\ ~IsNaN(a) /\ IsInf(b) -> b.n > 0
      [] IsFin(a) /\ IsFin(b) /\ (a.k = b.k \/ a.n = 0 \/ b.n = 0) ->
            a.n * b.d < b.n * a.d
      [] a.tag = "exp" /\ b.tag = "exp" -> a.n * b.d < b.n * a.d
      [] a.tag = "exp" /\ b = One -> a.n < 0
      [] a = One /\ b.tag = "exp" -> 0 < b.n
      [] a.tag = "exp" /\ IsFin(b) /\ b.n <= 0 -> FALSE
      [] IsFin(a) /\ a.n <= 0 /\ b.tag = "exp" -> TRUE

(* a > b *)
Gt(a, b) == Lt(b, a)

(* a <= b *)
Leq(a, b) == ~IsNaN(a) /\ ~IsNaN(b) /\ ~Lt(b, a)

(* a >= b *)
Geq(a, b) == Leq(b, a)


(***************************************************************************)
(* The process, its samplers and the schedule's queue.                     *)
(***************************************************************************)

(* constexpr Time Tref = 1.0 * bu::si::seconds *)
Tref == One

critical_FK(Mmin, Mmax, p, c, Tref_, beta, Mr) ==
    Div(Mul(Div(Mul(Sub(p, One),
                    Exp(Mul(p, Log(Div(c, Tref_))))),
                c),
            Sub(One, Exp(Mul(Neg(beta), Sub(Mmax, Mmin))))),
        Mul(Mul(beta, Exp(Mul(beta, Sub(Mmin, Mr)))), Sub(Mmax, Mmin)))

Process_M_t(mu_0, Tref_, c, beta, Mr, p, Mmin, Mmax, offspring_fraction) ==
    [mu_0 |-> mu_0, Tref |-> Tref_, c |-> c, beta |-> beta, Mr |-> Mr,
     p |-> p, ln_p |-> Log(p),
     FK |-> Mul(critical_FK(Mmin, Mmax, p, c, Tref_, beta, Mr),
                offspring_fraction)]

f(M_, process_) == Exp(Mul(process_.beta, Sub(M_, process_.Mr)))

Lambda_i_oo(ti, tl, Mi, process_) ==
    LET m1mp == Sub(One, process_.p)
    IN  Mul(Div(Mul(Mul(Neg(f(Mi, process_)), process_.Tref), process_.FK),
                m1mp),
            Pow(Div(Add(Sub(tl, ti), process_.c), process_.Tref), m1mp))

(* std::optional<Time> *)
NoTime == [has |-> FALSE, val |-> Zero]

SomeTime(x) == [has |-> TRUE, val |-> x]

(* next_single_occurrence with the log(q) term added instead of           *)
(* subtracted                                                              *)
next_single_occurrence_added(q, ti, Mi, tl, process_) ==
    IF Leq(q, Exp(Neg(Lambda_i_oo(ti, tl, Mi, process_))))
    THEN NoTime
    ELSE LET m1mp == Sub(One, process_.p)
         IN  SomeTime(
               Add(Sub(ti, process_.c),
                   Mul(process_.Tref,
                       Exp(Mul(Div(One, m1mp),
                               Log(Add(Pow(Div(Add(Sub(tl, ti), process_.c),
                                               process_.Tref),
                                           m1mp),
                                       Mul(Div(m1mp,
                                               Mul(Mul(f(Mi, process_),
                                                       process_.FK),
                                                   process_.Tref)),
                                           Log(q)))))))))

next_single_occurrence(q, ti, Mi, tl, process_) ==
    IF Leq(q, Exp(Neg(Lambda_i_oo(ti, tl, Mi, process_))))
    THEN NoTime
    ELSE LET m1mp == Sub(One, process_.p)
         IN  SomeTime(
               Add(Sub(ti, process_.c),
                   Mul(process_.Tref,
                       Exp(Mul(Div(One, m1mp),
                               Log(Sub(Pow(Div(Add(Sub(tl, ti), process_.c),
                                               process_.Tref),
                                           m1mp),
                                       Mul(Div(m1mp,
                                               Mul(Mul(f(Mi, process_),
                                                       process_.FK),
                                                   process_.Tref)),
                                           Log(q)))))))))

next_background_occurrence(q, tl, process_) ==
    Sub(tl, Div(Log(q), process_.mu_0))

draw_magnitude(q, Mmin, Mmax, beta) ==
    Sub(Mmin,
        Div(Log(Sub(One,
                    Mul(q, Sub(One, Exp(Mul(Neg(beta), Sub(Mmax, Mmin))))))),
            beta))

excitement_t(ti, M_, tnext) == [ti |-> ti, M |-> M_, tnext |-> tnext]

(* excitement_t::operator< *)
Less(a, b) == Gt(a.tnext, b.tnext)

(* std::priority_queue<excitement_t>: a binary max-heap under operator<,   *)
(* stored as a sequence (index i of the heap is element i + 1).            *)
RECURSIVE PushHeap(_, _, _, _)
PushHeap(h, holeIndex, topIndex, value) ==
    LET parent == (holeIndex - 1) \div 2
    IN  IF holeIndex > topIndex /\ Less(h[parent + 1], value)
        THEN PushHeap([h EXCEPT ![holeIndex + 1] = h[parent + 1]],
                      parent, topIndex, value)
        ELSE [h EXCEPT ![holeIndex + 1] = value]

RECURSIVE SiftDown(_, _, _)
SiftDown(h, secondChild, len) ==
    IF secondChild < (len - 1) \div 2
    THEN LET r == 2 * (secondChild + 1)
             c == IF Less(h[r + 1], h[r]) THEN r - 1 ELSE r
         IN  SiftDown([h EXCEPT ![secondChild + 1] = h[c + 1]], c, len)
    ELSE IF len % 2 = 0 /\ secondChild = (len - 2) \div 2
    THEN LET r == 2 * (secondChild + 1)
         IN  [heap |-> [h EXCEPT ![secondChild + 1] = h[r]], hole |-> r - 1]
    ELSE [heap |-> h, hole |-> secondChild]

AdjustHeap(h, len, value) ==
    LET s == SiftDown(h, 0, len)
    IN  PushHeap(s.heap, s.hole, 0, value)

QueuePush(h, value) == PushHeap(Append(h, value), Len(h), 0, value)

QueueTop(h) == h[1]

QueuePop(h) ==
    IF Len(h) > 1
    THEN AdjustHeap(SubSeq(h, 1, Len(h) - 1), Len(h) - 1, h[Len(h)])
    ELSE <<>>


(***************************************************************************)
(* Bounds of the model and the inputs of a call.                           *)
(***************************************************************************)

(* size_t is SizeBits wide: N, N_skip, n and N + N_skip wrap at 2^SizeBits *)
SizeBits == 3

SIZE_MAX == IPow(2, SizeBits) - 1

(* output buffers of 0 .. MaxN slots *)
MaxN == 3

(* warm-up counts 0 .. MaxSkip, and SIZE_MAX *)
MaxSkip == 4

(* seeds 0 .. MaxSeed *)
MaxSeed == 2

(* beta = ln 2 (a b-value of ln 2 / ln 10), and a b-value of 0 *)
BetaIn == << Fin(1, 1, 1), Zero >>

(* mu_0 = 1 / ln 2 per second *)
Mu0In == Fin(1, 1, -1)

MagnitudeBounds == {Int2(1), Int2(4)}

PIn == {Int2(1), Int2(2)}

(* the time lags c, a valid one first *)
CIn == << One, Zero, Int2(-1) >>

OffspringIn == {Rat(-1, 2), Zero, Rat(1, 2), Rat(3, 4), One}

Inputs ==
    { a \in [mu_0 : {Mu0In}, Mmin : MagnitudeBounds, Mmax : MagnitudeBounds,
             beta : {BetaIn[j] : j \in 1 .. Len(BetaIn)}, p : PIn, c : {CIn[i] : i \in 1 .. Len(CIn)},
             Mr : {Int2(1), Int2(2)}, offspring_fraction : OffspringIn,
             N_skip : (0 .. MaxSkip) \cup {SIZE_MAX}, seed : 0 .. MaxSeed,
             Mi_size : 0 .. MaxN, ti_size : 0 .. (MaxN + 1)] :
        a.ti_size \in {a.Mi_size, a.Mi_size + 1} }

(***************************************************************************)
(* std::mt19937_64 rng(seed) with std::uniform_real_distribution(0, 1):    *)
(* the generator is a stream of reals in (0,1) fixed by the seed; rng is   *)
(* the seed and the number of variates drawn so far.  Every event draws    *)
(* three variates (time, magnitude, first child) after the one initial     *)
(* background draw, so draw number 3e - 1 is the magnitude draw of event e.*)
(* The variates are taken from the reals on which the samplers' exp and    *)
(* log are exact: exp(-r / ln 2) for the time draws, and q with            *)
(* 1 - q * (1 - 2^-3) a power of two for the magnitude draws.              *)
(***************************************************************************)
TimeVariates ==
    << ExpForm(-1, 8), ExpForm(-1, 4), ExpForm(-1, 2),
       ExpForm(-3, 4), ExpForm(-1, 1), ExpForm(-2, 1) >>

MagnitudeVariates == << Rat(4, 7), Rat(6, 7) >>

mt19937_64(seed) == [seed |-> seed, count |-> 0]

Mix(g) ==
    (g.seed + 1) * (g.count + 4) + (g.count * g.count) \div 2
    + g.seed * g.seed * g.count

uniform(g) ==
    IF g.count % 3 = 2
    THEN MagnitudeVariates[(Mix(g) % Len(MagnitudeVariates)) + 1]
    ELSE TimeVariates[(Mix(g) % Len(TimeVariates)) + 1]

Advance(g) == [g EXCEPT !.count = @ + 1]

(***************************************************************************)
(* The state of a call.                                                    *)
(***************************************************************************)
VARIABLES
    args,         \* the arguments of the call
    pc,           \* "sanity", "setup", "warmup", "collect", "done", "failed"
    error,        \* what() of the std::runtime_error thrown, or "none"
    process,      \* Process_M_t process
    rng,          \* std::mt19937_64 rng
    n,            \* size_t n
    t,            \* Time t
    M,            \* double M
    next_bg,      \* Time next_bg
    descendants,  \* std::priority_queue<excitement_t> descendants
    Mi,           \* the magnitude buffer Mi
    ti,           \* the time buffer ti
    out_i,        \* the offset of M_out_i and t_out_i from begin()
    events,       \* history: the events next_event has generated
    call,         \* 1 for the first call, 2 for its repetition
    first         \* history: the outcome of the first call

vars == << args, pc, error, process, rng, n, t, M, next_bg, descendants,
           Mi, ti, out_i, events, call, first >>

NoProcess == [mu_0 |-> Zero, Tref |-> Zero, c |-> Zero, beta |-> Zero,
              Mr |-> Zero, p |-> Zero, ln_p |-> Zero, FK |-> Zero]

NoOutcome == [error |-> "none", Mi |-> <<>>, ti |-> <<>>]

(* Quantity.zeros(N, '1') and Quantity.zeros(N, 's') *)
zeros(size) == [i \in 1 .. size |-> Zero]

Enter(a, k, o) ==
    /\ args = a
    /\ pc = "sanity"
    /\ error = "none"
    /\ process = NoProcess
    /\ rng = mt19937_64(0)
    /\ n = 0
    /\ t = Zero
    /\ M = NaN
    /\ next_bg = Zero
    /\ descendants = <<>>
    /\ Mi = zeros(a.Mi_size)
    /\ ti = zeros(a.ti_size)
    /\ out_i = 0
    /\ events = <<>>
    /\ call = k
    /\ first = o

Init ==
    \E j \in 1 .. Len(BetaIn) :
        \E i \in 1 .. Len(CIn) :
            \E a \in Inputs :
                a.beta = BetaIn[j] /\ a.c = CIn[i] /\ Enter(a, 1, NoOutcome)


(***************************************************************************)
(* The call, step by step.                                                 *)
(***************************************************************************)

(* size_t arithmetic *)
SizeT(x) == x % (SIZE_MAX + 1)

(* const size_t N = Mi.size() *)
N == args.Mi_size

(* SanityError with the text of the first offspring check copied to the   *)
(* second                                                                  *)
SanityErrorSameText(a) ==
    IF Geq(a.Mmin, a.Mmax) THEN "Mmin >= Mmax"
    ELSE IF Leq(a.p, One) THEN "p <= 1"
    ELSE IF Geq(a.offspring_fraction, One)
    THEN "Instable process (offspring ratio > 1)"
    ELSE IF Lt(a.offspring_fraction, Zero)
    THEN "Instable process (offspring ratio > 1)"
    ELSE IF a.ti_size # a.Mi_size THEN "Size of M and t not compatible"
    ELSE "none"

(* the sanity block: what() of the exception it throws, "none" if none *)
SanityError(a) ==
    IF Geq(a.Mmin, a.Mmax) THEN "Mmin >= Mmax"
    ELSE IF Leq(a.p, One) THEN "p <= 1"
    ELSE IF Geq(a.offspring_fraction, One)
    THEN "Instable process (offspring ratio > 1)"
    ELSE IF Lt(a.offspring_fraction, Zero)
    THEN "Offspring ratio needs to be non-negative."
    ELSE IF a.ti_size # a.Mi_size THEN "Size of M and t not compatible"
    ELSE "none"

Sanity ==
    /\ pc = "sanity"
    /\ error' = SanityError(args)
    /\ pc' = IF SanityError(args) = "none" THEN "setup" ELSE "failed"
    /\ UNCHANGED << args, process, rng, n, t, M, next_bg, descendants,
                    Mi, ti, out_i, events, call, first >>

SetupProcess(a) ==
    Process_M_t(a.mu_0, Tref, a.c, a.beta, a.Mr, a.p, a.Mmin, a.Mmax,
                a.offspring_fraction)

(* InitialLocals with t declared but not initialised: the first           *)
(* background candidate is drawn from what the storage of t held           *)
InitialLocalsStaleTime(a, process_, stale) ==
    [t |-> stale.t, M |-> NaN,
     next_bg |-> next_background_occurrence(
                     uniform(mt19937_64(a.seed)), stale.t, process_),
     descendants |-> <<>>,
     rng |-> Advance(mt19937_64(a.seed)),
     origin |-> "none", ancestor |-> excitement_t(Zero, Zero, Zero),
     resample |-> NoTime, child |-> NoTime]

(* lines 284-324: n, process, rng, t, M, next_bg and descendants are       *)
(* initialised; stale is what their storage held before                    *)
InitialLocals(a, process_, stale) ==
    [t |-> Zero, M |-> NaN,
     next_bg |-> next_background_occurrence(
                     uniform(mt19937_64(a.seed)), Zero, process_),
     descendants |-> <<>>,
     rng |-> Advance(mt19937_64(a.seed)),
     origin |-> "none", ancestor |-> excitement_t(Zero, Zero, Zero),
     resample |-> NoTime, child |-> NoTime]

Assign(s) ==
    /\ t' = s.t
    /\ M' = s.M
    /\ next_bg' = s.next_bg
    /\ descendants' = s.descendants
    /\ rng' = s.rng

(* the lambda next_event, on the locals it captures, in its three parts:  *)
(* the occurrence time, the magnitude, the first child.  Each part returns *)
(* the locals after it, with what it did (origin, ancestor, resample,      *)
(* child) for the history.                                                 *)
Locals ==
    [t |-> t, M |-> M, next_bg |-> next_bg, descendants |-> descendants,
     rng |-> rng, origin |-> "none",
     ancestor |-> excitement_t(Zero, Zero, Zero),
     resample |-> NoTime, child |-> NoTime]

(* BackgroundEvent with the fresh candidate drawn from the time of the    *)
(* event before                                                            *)
BackgroundEventFromLast(s, process_) ==
    [s EXCEPT !.t = s.next_bg,
              !.next_bg = next_background_occurrence(
                              uniform(s.rng), s.t, process_),
              !.rng = Advance(s.rng),
              !.origin = "background",
              !.ancestor = excitement_t(Zero, Zero, Zero),
              !.resample = NoTime]

BackgroundEvent(s, process_) ==
    [s EXCEPT !.t = s.next_bg,
              !.next_bg = next_background_occurrence(
                              uniform(s.rng), s.next_bg, process_),
              !.rng = Advance(s.rng),
              !.origin = "background",
              !.ancestor = excitement_t(Zero, Zero, Zero),
              !.resample = NoTime]

(* Requeue with the re-sampled stream pushed while the emitted one is     *)
(* still queued, and the emitted one popped only when exhausted            *)
RequeueWithoutPop(s, event, tnext) ==
    [s EXCEPT !.t = event.tnext,
              !.descendants =
                  IF tnext.has
                  THEN QueuePush(s.descendants,
                                 [event EXCEPT !.tnext = tnext.val])
                  ELSE QueuePop(s.descendants),
              !.rng = Advance(s.rng),
              !.origin = "descendant",
              !.ancestor = event,
              !.resample = tnext]

Requeue(s, event, tnext) ==
    [s EXCEPT !.t = event.tnext,
              !.descendants =
                  IF tnext.has
                  THEN QueuePush(QueuePop(s.descendants),
                                 [event EXCEPT !.tnext = tnext.val])
                  ELSE QueuePop(s.descendants),
              !.rng = Advance(s.rng),
              !.origin = "descendant",
              !.ancestor = event,
              !.resample = tnext]

DescendantEvent(s, event, process_) ==
    Requeue(s, event,
            next_single_occurrence(uniform(s.rng), event.ti, event.M,
                                   event.tnext, process_))

(* NextOccurrence with the background event taken on next_bg <= tnext *)
NextOccurrenceBackgroundFirst(s, process_) ==
    IF s.descendants = <<>>
       \/ Leq(s.next_bg, QueueTop(s.descendants).tnext)
    THEN BackgroundEvent(s, process_)
    ELSE DescendantEvent(s, QueueTop(s.descendants), process_)

NextOccurrence(s, process_) ==
    IF s.descendants = <<>>
       \/ Lt(s.next_bg, QueueTop(s.descendants).tnext)
    THEN BackgroundEvent(s, process_)
    ELSE DescendantEvent(s, QueueTop(s.descendants), process_)

NextMagnitude(s, a) ==
    [s EXCEPT !.M = draw_magnitude(uniform(s.rng), a.Mmin, a.Mmax, a.beta),
              !.rng = Advance(s.rng)]

PushChild(s, tnext) ==
    [s EXCEPT !.descendants =
                  IF tnext.has
                  THEN QueuePush(s.descendants,
                                 excitement_t(s.t, s.M, tnext.val))
                  ELSE s.descendants,
              !.rng = Advance(s.rng),
              !.child = tnext]

(* Trigger with the first child sampled for descendant events only *)
TriggerDescendantsOnly(s, process_) ==
    PushChild(s, IF s.origin = "background" THEN NoTime
                 ELSE next_single_occurrence(uniform(s.rng), s.t, s.M, s.t,
                                             process_))

Trigger(s, process_) ==
    PushChild(s, next_single_occurrence(uniform(s.rng), s.t, s.M, s.t,
                                        process_))

next_event(s, process_, a) ==
    Trigger(NextMagnitude(NextOccurrence(s, process_), a), process_)

Emit(s, written) ==
    /\ Assign(s)
    /\ events' = Append(events,
                        [t |-> s.t, M |-> s.M, origin |-> s.origin,
                         ancestor |-> s.ancestor,
                         resample |-> s.resample, child |-> s.child,
                         queue |-> descendants, pending |-> next_bg,
                         written |-> written])

Generate(written) == Emit(next_event(Locals, process, args), written)

Setup ==
    /\ pc = "setup"
    /\ n' = 0
    /\ process' = SetupProcess(args)
    /\ Assign(InitialLocals(args, SetupProcess(args), Locals))
    /\ pc' = "warmup"
    /\ UNCHANGED << args, error, Mi, ti, out_i, events, call, first >>

SkipEvent ==
    /\ pc = "warmup"
    /\ n < args.N_skip
    /\ Generate(FALSE)
    /\ n' = SizeT(n + 1)
    /\ UNCHANGED << args, pc, error, process, Mi, ti, out_i, call, first >>

BeginCollect ==
    /\ pc = "warmup"
    /\ ~(n < args.N_skip)
    /\ out_i' = 0
    /\ pc' = "collect"
    /\ UNCHANGED << args, error, process, rng, n, t, M, next_bg,
                    descendants, Mi, ti, events, call, first >>

CollectEvent ==
    /\ pc = "collect"
    /\ n < SizeT(N + args.N_skip)
    /\ Generate(TRUE)
    /\ ti' = [ti EXCEPT ![out_i + 1] = t']
    /\ Mi' = [Mi EXCEPT ![out_i + 1] = M']
    /\ out_i' = out_i + 1
    /\ n' = SizeT(n + 1)
    /\ UNCHANGED << args, pc, error, process, call, first >>

Return ==
    /\ pc = "collect"
    /\ ~(n < SizeT(N + args.N_skip))
    /\ pc' = "done"
    /\ UNCHANGED << args, error, process, rng, n, t, M, next_bg,
                    descendants, Mi, ti, out_i, events, call, first >>

(* the caller repeats the call with the same arguments and fresh buffers;  *)
(* the locals of the new call are storage that holds what was left there   *)
Recall ==
    /\ pc \in {"done", "failed"}
    /\ call = 1
    /\ pc' = "sanity"
    /\ error' = "none"
    /\ Mi' = zeros(args.Mi_size)
    /\ ti' = zeros(args.ti_size)
    /\ events' = <<>>
    /\ call' = 2
    /\ first' = [error |-> error, Mi |-> Mi, ti |-> ti]
    /\ UNCHANGED << args, process, rng, n, t, M, next_bg, descendants,
                    out_i >>

Next ==
    \/ Sanity
    \/ Setup
    \/ SkipEvent
    \/ BeginCollect
    \/ CollectEvent
    \/ Return
    \/ Recall

Spec == Init /\ [][Next]_vars


(***************************************************************************)
(* The claims.                                                             *)
(***************************************************************************)

Running == pc \in {"warmup", "collect", "done"}

Collecting == pc \in {"collect", "done"}

IsFinite(x) == x.tag \notin {"nan", "inf"}

(* N + N_skip does not wrap *)
NoWrap == N + args.N_skip <= SIZE_MAX

PositiveLag == Gt(args.c, Zero)

PositiveBeta == Gt(args.beta, Zero)

(* the calls with c > 0 and beta > 0 *)
PositiveLagAndBeta == PositiveLag /\ PositiveBeta

(* the locals after j events of the event loop started by Setup *)
RECURSIVE LocalsAfter(_, _)
LocalsAfter(a, j) ==
    IF j = 0 THEN InitialLocals(a, SetupProcess(a), Locals)
    ELSE next_event(LocalsAfter(a, j - 1), SetupProcess(a), a)

WrittenEvents == {j \in 1 .. Len(events) : events[j].written}

(* C1: for every call that passes the sanity block, the times written to   *)
(* the time buffer are non-decreasing: ti[i] <= ti[i+1] for all written    *)
(* neighbours.                                                             *)
C1_Monotone ==
    Collecting => \A i \in 1 .. (out_i - 1) : Leq(ti[i], ti[i + 1])

(* C1, for the calls with c > 0 and beta > 0 only *)
C1_MonotonePositive ==
    (Collecting /\ PositiveLagAndBeta) =>
        \A i \in 1 .. (out_i - 1) : Leq(ti[i], ti[i + 1])

(* C2: for every N and N_skip the collection loop runs exactly N times and *)
(* writes exactly N pairs, slot by slot, never past slot N-1 and leaving   *)
(* no slot unwritten.                                                      *)
C2_Count ==
    /\ Collecting => out_i <= N
    /\ pc = "done" => (out_i = N /\ Cardinality(WrittenEvents) = N)

(* C2, for the calls in which N + N_skip does not wrap *)
C2_CountNoWrap ==
    /\ Collecting => out_i <= N
    /\ (pc = "done" /\ NoWrap) =>
           (out_i = N /\ Cardinality(WrittenEvents) = N)

(* C3: the catalog written with warm-up count N_skip = k and size N is     *)
(* the events number k+1 .. k+N of the sequence the event loop generates   *)
(* from the empty history at time 0; the first k events are generated but  *)
(* never written.                                                          *)
C3_WarmUp ==
    pc = "done" =>
        /\ \A i \in 1 .. N :
              /\ ti[i] = LocalsAfter(args, args.N_skip + i).t
              /\ Mi[i] = LocalsAfter(args, args.N_skip + i).M
        /\ WrittenEvents = (args.N_skip + 1) .. (args.N_skip + N)

(* C3, for the calls in which N + N_skip does not wrap *)
C3_WarmUpNoWrap ==
    (pc = "done" /\ NoWrap) =>
        /\ \A i \in 1 .. N :
              /\ ti[i] = LocalsAfter(args, args.N_skip + i).t
              /\ Mi[i] = LocalsAfter(args, args.N_skip + i).M
        /\ WrittenEvents = (args.N_skip + 1) .. (args.N_skip + N)

BadRange == Geq(args.Mmin, args.Mmax)

BadExponent == Leq(args.p, One)

Explosive == Geq(args.offspring_fraction, One)

Negative == Lt(args.offspring_fraction, Zero)

Mismatch == args.ti_size # args.Mi_size

(* C4: each of the five validation failures has its own error: an error is *)
(* raised only by its own failure, a call with exactly one failure raises  *)
(* that failure's error, every failing call raises one of the five, and a  *)
(* call with none of the failures raises none.                             *)
C4_DistinctErrors ==
    pc # "sanity" =>
        /\ error = "Mmin >= Mmax" => BadRange
        /\ error = "p <= 1" => BadExponent
        /\ error = "Instable process (offspring ratio > 1)" => Explosive
        /\ error = "Offspring ratio needs to be non-negative." => Negative
        /\ error = "Size of M and t not compatible" => Mismatch
        /\ (BadRange /\ ~BadExponent /\ ~Explosive /\ ~Negative /\ ~Mismatch)
              => error = "Mmin >= Mmax"
        /\ (~BadRange /\ BadExponent /\ ~Explosive /\ ~Negative /\ ~Mismatch)
              => error = "p <= 1"
        /\ (~BadRange /\ ~BadExponent /\ Explosive /\ ~Negative /\ ~Mismatch)
              => error = "Instable process (offspring ratio > 1)"
        /\ (~BadRange /\ ~BadExponent /\ ~Explosive /\ Negative /\ ~Mismatch)
              => error = "Offspring ratio needs to be non-negative."
        /\ (~BadRange /\ ~BadExponent /\ ~Explosive /\ ~Negative /\ Mismatch)
              => error = "Size of M and t not compatible"
        /\ (BadRange \/ BadExponent \/ Explosive \/ Negative \/ Mismatch)
              <=> error # "none"

(* a call whose only failure is a negative offspring fraction has failed   *)
C4_Witness ==
    /\ pc = "failed"
    /\ Negative /\ ~BadRange /\ ~BadExponent /\ ~Mismatch
    /\ error = "Offspring ratio needs to be non-negative."

(* C5: no partial failure: a call that raises an error has drawn no        *)
(* variate, generated no event and left both buffers as they were; a call  *)
(* that has generated an event raises no error, and a call that returns    *)
(* has written all N events.                                               *)
C5_NoPartialFailure ==
    /\ error # "none" =>
          /\ pc = "failed"
          /\ events = <<>>
          /\ Mi = zeros(args.Mi_size)
          /\ ti = zeros(args.ti_size)
    /\ pc = "failed" => error # "none"
    /\ pc = "done" => (error = "none" /\ Cardinality(WrittenEvents) = N)

(* C5, for the calls in which N + N_skip does not wrap *)
C5_NoPartialFailureNoWrap ==
    /\ error # "none" =>
          /\ pc = "failed"
          /\ events = <<>>
          /\ Mi = zeros(args.Mi_size)
          /\ ti = zeros(args.ti_size)
    /\ pc = "failed" => error # "none"
    /\ (pc = "done" /\ NoWrap) =>
          (error = "none" /\ Cardinality(WrittenEvents) = N)

(* C6: every violation of an input precondition (Mmin < Mmax, p > 1,      *)
(* c > 0, 0 <= offspring_fraction < 1, N_skip >= 0, equal buffer sizes) is *)
(* detected before the simulation starts: a call that violates one never   *)
(* reaches the event loop.                                                 *)
C6_EagerDetection ==
    Running =>
        /\ Lt(args.Mmin, args.Mmax)
        /\ Gt(args.p, One)
        /\ Gt(args.c, Zero)
        /\ Geq(args.offspring_fraction, Zero)
        /\ Lt(args.offspring_fraction, One)
        /\ args.N_skip >= 0
        /\ args.ti_size = args.Mi_size

(* C6, without the precondition c > 0 *)
C6_EagerDetectionButLag ==
    Running =>
        /\ Lt(args.Mmin, args.Mmax)
        /\ Gt(args.p, One)
        /\ Geq(args.offspring_fraction, Zero)
        /\ Lt(args.offspring_fraction, One)
        /\ args.N_skip >= 0
        /\ args.ti_size = args.Mi_size

(* C7: determinism: the repetition of a call with the same seed, the same  *)
(* parameters, the same N and the same N_skip ends as the first call did,  *)
(* with the same time and the same magnitude in every slot.                *)
C7_Determinism ==
    (call = 2 /\ pc \in {"done", "failed"}) =>
        /\ error = first.error
        /\ Mi = first.Mi
        /\ ti = first.ti

(* the repetition of a call has written a descendant event after a         *)
(* background event, at finite times                                       *)
C7_Witness ==
    /\ call = 2
    /\ pc = "done"
    /\ out_i >= 2
    /\ IsFinite(ti[out_i])
    /\ events[Len(events)].origin = "descendant"
    /\ events[Len(events)].written

(* C8: with offspring_fraction = 0 the queue is empty in every state of    *)
(* the event loop, every event is a background event, and every first-     *)
(* child and re-sample draw reports "exhausted".                           *)
C8_PureBackground ==
    (Running /\ args.offspring_fraction = Zero) =>
        /\ descendants = <<>>
        /\ \A j \in 1 .. Len(events) :
              /\ events[j].origin = "background"
              /\ ~events[j].child.has
              /\ ~events[j].resample.has

(* C8, for the calls with c > 0 and beta > 0 only *)
C8_PureBackgroundPositive ==
    (Running /\ args.offspring_fraction = Zero /\ PositiveLagAndBeta) =>
        /\ descendants = <<>>
        /\ \A j \in 1 .. Len(events) :
              /\ events[j].origin = "background"
              /\ ~events[j].child.has
              /\ ~events[j].resample.has

(* C9: the reference magnitude of the process is Mmin in every call: the   *)
(* excitation factor is f(M) = exp(beta * (M - Mmin)) and the critical     *)
(* rate is the one computed with Mr = Mmin.                                *)
C9_ReferenceMagnitude ==
    Running =>
        /\ process.Mr = args.Mmin
        /\ \A m \in {args.Mmin, args.Mmax} :
              f(m, process) = Exp(Mul(args.beta, Sub(m, args.Mmin)))
        /\ critical_FK(args.Mmin, args.Mmax, args.p, args.c, Tref,
                       args.beta, process.Mr)
           = critical_FK(args.Mmin, args.Mmax, args.p, args.c, Tref,
                         args.beta, args.Mmin)

CriticalRate ==
    critical_FK(args.Mmin, args.Mmax, args.p, args.c, Tref, args.beta,
                args.Mr)

(* C10: for every call that passes the sanity block the critical rate is   *)
(* strictly positive and finite, 0 <= FK < critical rate, and FK is the    *)
(* value computed at construction throughout the run.                      *)
C10_CriticalRate ==
    Running =>
        /\ IsFinite(CriticalRate)
        /\ Gt(CriticalRate, Zero)
        /\ Geq(process.FK, Zero)
        /\ Lt(process.FK, CriticalRate)
        /\ process.FK = Mul(CriticalRate, args.offspring_fraction)

(* C10, for the calls with c > 0 and beta > 0 only *)
C10_CriticalRatePositive ==
    (Running /\ PositiveLagAndBeta) =>
        /\ IsFinite(CriticalRate)
        /\ Gt(CriticalRate, Zero)
        /\ Geq(process.FK, Zero)
        /\ Lt(process.FK, CriticalRate)
        /\ process.FK = Mul(CriticalRate, args.offspring_fraction)

(* the magnitude drawn for the variate number i of the magnitude draws *)
Drawn(i) ==
    draw_magnitude(MagnitudeVariates[i], args.Mmin, args.Mmax, args.beta)

(* C11: every magnitude written to the magnitude buffer lies in            *)
(* [Mmin, Mmax], and draw_magnitude is increasing in the variate q.        *)
C11_MagnitudeRange ==
    (Collecting /\ out_i > 0) =>
        /\ \A i \in 1 .. out_i :
              Leq(args.Mmin, Mi[i]) /\ Leq(Mi[i], args.Mmax)
        /\ \A i, j \in 1 .. Len(MagnitudeVariates) :
              Lt(MagnitudeVariates[i], MagnitudeVariates[j])
                  => Lt(Drawn(i), Drawn(j))

(* C11, for the calls with beta > 0 only *)
C11_MagnitudeRangePositiveBeta ==
    (Collecting /\ out_i > 0 /\ PositiveBeta) =>
        /\ \A i \in 1 .. out_i :
              Leq(args.Mmin, Mi[i]) /\ Leq(Mi[i], args.Mmax)
        /\ \A i, j \in 1 .. Len(MagnitudeVariates) :
              Lt(MagnitudeVariates[i], MagnitudeVariates[j])
                  => Lt(Drawn(i), Drawn(j))

Generated == Running /\ events # <<>>

(* the event generated last, with the queue and the background candidate  *)
(* next_event found                                                        *)
LastEvent == events[Len(events)]

(* the candidate times of the background stream and of the queued streams *)
Candidates(queue, bg) == {bg} \cup {queue[i].tnext : i \in 1 .. Len(queue)}

TopIsLeast(queue) ==
    queue # <<>> =>
        \A i \in 1 .. Len(queue) : Leq(QueueTop(queue).tnext, queue[i].tnext)

(* C12: minimum selection: the top of the queue is an entry of least       *)
(* tnext, the emitted time is the least of the candidates pending before   *)
(* the step, and every candidate pending after the step is >= the emitted  *)
(* time.                                                                   *)
C12_MinimumSelection ==
    Generated =>
        /\ TopIsLeast(LastEvent.queue)
        /\ TopIsLeast(descendants)
        /\ LastEvent.t \in Candidates(LastEvent.queue, LastEvent.pending)
        /\ \A x \in Candidates(LastEvent.queue, LastEvent.pending) :
              Leq(LastEvent.t, x)
        /\ \A x \in Candidates(descendants, next_bg) : Leq(LastEvent.t, x)

(* C12, for the calls with c > 0 and beta > 0 only *)
C12_MinimumSelectionPositive ==
    (Generated /\ PositiveLagAndBeta) =>
        /\ TopIsLeast(LastEvent.queue)
        /\ TopIsLeast(descendants)
        /\ LastEvent.t \in Candidates(LastEvent.queue, LastEvent.pending)
        /\ \A x \in Candidates(LastEvent.queue, LastEvent.pending) :
              Leq(LastEvent.t, x)
        /\ \A x \in Candidates(descendants, next_bg) : Leq(LastEvent.t, x)

(* the generator as it was before the last event drew its three variates  *)
TimeDraw == [rng EXCEPT !.count = @ - 3]

Count(queue, x) == Cardinality({i \in 1 .. Len(queue) : queue[i] = x})

IsDescendant(e) == e.origin = "descendant"

(* a draw that yields a finite time *)
FiniteTime(o) == o.has /\ IsFinite(o.val)

(* the stream of the ancestor of event e with its re-sampled candidate *)
Resampled(e) == [e.ancestor EXCEPT !.tnext = e.resample.val]

(* the stream that event e pushes for itself *)
Child(e) == excitement_t(e.t, e.M, e.child.val)

Entries(queue) == {queue[i] : i \in 1 .. Len(queue)}

(* the queue after event e, entry by entry: the queue before it, less the *)
(* popped stream, with the re-sampled stream if reinserted and the child   *)
(* if pushed                                                               *)
QueueAfter(e, reinserted, pushed) ==
    \A x \in Entries(e.queue) \cup Entries(descendants)
             \cup {Resampled(e), Child(e)} :
        Count(descendants, x)
            = Count(e.queue, x)
              - (IF IsDescendant(e) /\ x = e.ancestor THEN 1 ELSE 0)
              + (IF reinserted /\ x = Resampled(e) THEN 1 ELSE 0)
              + (IF pushed /\ x = Child(e) THEN 1 ELSE 0)

(* the streams opened for an event at time ti with magnitude M_, and the   *)
(* ones of them whose re-sample draw reported exhausted                    *)
Opened(ti_, M_) ==
    Cardinality({j \in 1 .. Len(events) :
        events[j].child.has /\ events[j].t = ti_ /\ events[j].M = M_})

Exhausted(ti_, M_) ==
    Cardinality({j \in 1 .. Len(events) :
        /\ IsDescendant(events[j])
        /\ ~events[j].resample.has
        /\ events[j].ancestor.ti = ti_ /\ events[j].ancestor.M = M_})

Queued(ti_, M_) ==
    Cardinality({i \in 1 .. Len(descendants) :
        descendants[i].ti = ti_ /\ descendants[i].M = M_})

(* the queue holds the opened streams that are not exhausted, and no other *)
OpenStreams ==
    /\ \A j \in 1 .. Len(events) :
          Queued(events[j].t, events[j].M)
              = Opened(events[j].t, events[j].M)
                - Exhausted(events[j].t, events[j].M)
    /\ \A i \in 1 .. Len(descendants) :
          \E j \in 1 .. Len(events) :
              events[j].t = descendants[i].ti /\ events[j].M = descendants[i].M

(* C13: when a descendant event is emitted its stream is taken from the    *)
(* queue, the next child of the same ancestor is sampled with t_l = the    *)
(* emitted time and ti, M unchanged, the stream is re-inserted with the    *)
(* new candidate iff the draw yields a finite time, and an exhausted       *)
(* stream is never in the queue again.                                     *)
C13_Resample ==
    Generated =>
        /\ IsDescendant(LastEvent) =>
              /\ LastEvent.queue # <<>>
              /\ LastEvent.ancestor = QueueTop(LastEvent.queue)
              /\ LastEvent.t = LastEvent.ancestor.tnext
              /\ LastEvent.resample
                 = next_single_occurrence(uniform(TimeDraw),
                       LastEvent.ancestor.ti, LastEvent.ancestor.M,
                       LastEvent.t, process)
              /\ QueueAfter(LastEvent, FiniteTime(LastEvent.resample),
                            LastEvent.child.has)
        /\ OpenStreams

(* C13, for the calls with c > 0 and beta > 0 only *)
C13_ResamplePositive ==
    (Generated /\ PositiveLagAndBeta) =>
        /\ IsDescendant(LastEvent) =>
              /\ LastEvent.queue # <<>>
              /\ LastEvent.ancestor = QueueTop(LastEvent.queue)
              /\ LastEvent.t = LastEvent.ancestor.tnext
              /\ LastEvent.resample
                 = next_single_occurrence(uniform(TimeDraw),
                       LastEvent.ancestor.ti, LastEvent.ancestor.M,
                       LastEvent.t, process)
              /\ QueueAfter(LastEvent, FiniteTime(LastEvent.resample),
                            LastEvent.child.has)
        /\ OpenStreams

IsBackground(e) == e.origin = "background"

MagnitudeDraw == Advance(TimeDraw)

ChildDraw == Advance(MagnitudeDraw)

(* C15: whatever the origin of the emitted event, a magnitude is drawn for *)
(* it and then a first child is sampled with the event as ancestor         *)
(* (t_l = ti = t, Mi = the magnitude just drawn); exactly one stream       *)
(* (t, M, t_next) is pushed if the draw yields a finite time and none      *)
(* otherwise.                                                              *)
C15_FirstChild ==
    Generated =>
        /\ LastEvent.t = t
        /\ LastEvent.M = M
        /\ M = draw_magnitude(uniform(MagnitudeDraw), args.Mmin, args.Mmax,
                              args.beta)
        /\ LastEvent.child
           = next_single_occurrence(uniform(ChildDraw), t, M, t, process)
        /\ QueueAfter(LastEvent, LastEvent.resample.has,
                      FiniteTime(LastEvent.child))

(* C15, for the calls with c > 0 and beta > 0 only *)
C15_FirstChildPositive ==
    (Generated /\ PositiveLagAndBeta) =>
        /\ LastEvent.t = t
        /\ LastEvent.M = M
        /\ M = draw_magnitude(uniform(MagnitudeDraw), args.Mmin, args.Mmax,
                              args.beta)
        /\ LastEvent.child
           = next_single_occurrence(uniform(ChildDraw), t, M, t, process)
        /\ QueueAfter(LastEvent, LastEvent.resample.has,
                      FiniteTime(LastEvent.child))

(* C16: every emitted event except the background events becomes the       *)
(* ancestor of a new stream, and a background event creates no stream      *)
(* with itself as ancestor.                                                *)
C16_ExceptBackground ==
    Generated =>
        /\ IsDescendant(LastEvent) =>
              /\ LastEvent.child.has
              /\ Child(LastEvent) \in Entries(descendants)
        /\ IsBackground(LastEvent) =>
              /\ ~LastEvent.child.has
              /\ \A i \in 1 .. Len(descendants) :
                    descendants[i].ti = LastEvent.t
                        => descendants[i] \in Entries(LastEvent.queue)

(* C16 as amended: every emitted event, background events included, is     *)
(* tried as the ancestor of a new stream: the first-child draw is made     *)
(* for it, and the queue gains the stream (t, M, t_next) exactly when that *)
(* draw yields a time.                                                     *)
C16_EveryEvent ==
    Generated =>
        /\ LastEvent.child
           = next_single_occurrence(uniform(ChildDraw), LastEvent.t,
                                    LastEvent.M, LastEvent.t, process)
        /\ LastEvent.child.has =>
              Count(descendants, Child(LastEvent))
                  > Count(LastEvent.queue, Child(LastEvent))
        /\ ~LastEvent.child.has =>
              /\ Len(descendants) <= Len(LastEvent.queue)
              /\ \A x \in Entries(descendants) :
                    x \in Entries(LastEvent.queue) \/ x = Resampled(LastEvent)

(* a background event of a call with c > 0 and beta > 0 has become the     *)
(* ancestor of a new stream                                                *)
C16_Witness ==
    /\ Generated
    /\ PositiveLagAndBeta
    /\ IsBackground(LastEvent)
    /\ LastEvent.child.has
    /\ Child(LastEvent) \in Entries(descendants)

(* the events emitted at time ti with magnitude M_ *)
Emitted(ti_, M_) ==
    Cardinality({j \in 1 .. Len(events) :
        events[j].t = ti_ /\ events[j].M = M_})

(* C17: the queue holds at most one entry per ancestor event, so it is     *)
(* never longer than the number of events emitted so far, and its length   *)
(* changes by -1, 0 or +1 per emitted event.                               *)
C17_OneEntryPerAncestor ==
    /\ Running =>
          /\ Len(descendants) <= Len(events)
          /\ \A i \in 1 .. Len(descendants) :
                /\ Emitted(descendants[i].ti, descendants[i].M) >= 1
                /\ Queued(descendants[i].ti, descendants[i].M)
                       <= Emitted(descendants[i].ti, descendants[i].M)
    /\ Generated =>
          Len(descendants) - Len(LastEvent.queue) \in {-1, 0, 1}

(* a descendant event has shortened the queue (its own stream was         *)
(* exhausted and it opened none), after a descendant event that did not    *)
C17_Witness ==
    /\ Generated
    /\ PositiveLagAndBeta
    /\ IsDescendant(LastEvent)
    /\ ~LastEvent.resample.has
    /\ ~LastEvent.child.has
    /\ Len(descendants) = Len(LastEvent.queue) - 1
    /\ Len(events) >= 2
    /\ IsDescendant(events[Len(events) - 1])

(* a == b as doubles compare *)
Same(a, b) == Leq(a, b) /\ Geq(a, b)

(* event e was chosen with the background candidate equal to the least     *)
(* candidate of the queue                                                  *)
Tie(e) == e.queue # <<>> /\ Same(e.pending, QueueTop(e.queue).tnext)

(* C18: on a tie of the background candidate with the least candidate of   *)
(* the queue the queued descendant is emitted first, the background        *)
(* candidate stays pending and is emitted at the same time afterwards,     *)
(* and the emitted times stay non-decreasing across the tie.               *)
C18_TieBreak ==
    Generated =>
        \A j \in 1 .. Len(events) :
            Tie(events[j]) =>
                /\ IsDescendant(events[j])
                /\ events[j].ancestor = QueueTop(events[j].queue)
                /\ Same(events[j].t, events[j].pending)
                /\ j > 1 => Leq(events[j - 1].t, events[j].t)
                /\ j = Len(events) => next_bg = events[j].pending
                /\ j < Len(events) =>
                      /\ events[j + 1].pending = events[j].pending
                      /\ Leq(events[j].t, events[j + 1].t)
                /\ \A k \in (j + 1) .. Len(events) :
                      (/\ IsBackground(events[k])
                       /\ \A l \in (j + 1) .. (k - 1) :
                             IsDescendant(events[l]))
                          => Same(events[k].t, events[j].t)

(* a descendant event emitted on a tie and the background event emitted    *)
(* at the same time after it have both been written                        *)
C18_Witness ==
    /\ Generated
    /\ PositiveLagAndBeta
    /\ out_i >= 3
    /\ Tie(events[Len(events) - 1])
    /\ events[Len(events) - 1].written
    /\ IsBackground(LastEvent)
    /\ LastEvent.written
    /\ Same(ti[out_i], ti[out_i - 1])

(* the early exit of next_single_occurrence: q <= exp(-Lambda_oo) *)
NoFurtherChild(q, ti_, Mi_, tl) ==
    Leq(q, Exp(Neg(Lambda_i_oo(ti_, tl, Mi_, process))))

(* what C19 says of the draw o made with the variate q for the ancestor    *)
(* (ti, Mi) and the last-considered time tl                                *)
ExactDraw(o, q, ti_, Mi_, tl) ==
    /\ ~o.has <=> NoFurtherChild(q, ti_, Mi_, tl)
    /\ o.has => (IsFinite(o.val) /\ Geq(o.val, tl))

(* the calls of next_single_occurrence that C19 covers: p > 1, c > 0,      *)
(* FK > 0                                                                  *)
PositiveRate ==
    /\ Gt(process.p, One)
    /\ Gt(process.c, Zero)
    /\ Gt(process.FK, Zero)

(* C19: for tl >= ti, p > 1, c > 0 and FK > 0, next_single_occurrence      *)
(* reports no further child exactly when q <= exp(-Lambda_oo(ti, tl, Mi)), *)
(* and returns a finite time >= tl otherwise.                              *)
C19_ExactSampler ==
    (Generated /\ PositiveRate) =>
        /\ ExactDraw(LastEvent.child, uniform(ChildDraw), LastEvent.t,
                     LastEvent.M, LastEvent.t)
        /\ (IsDescendant(LastEvent)
              /\ Geq(LastEvent.t, LastEvent.ancestor.ti)) =>
              ExactDraw(LastEvent.resample, uniform(TimeDraw),
                        LastEvent.ancestor.ti, LastEvent.ancestor.M,
                        LastEvent.t)

(* a descendant event later than its ancestor, whose re-sample draw        *)
(* reported no further child and whose first-child draw returned a later   *)
(* time                                                                    *)
C19_Witness ==
    /\ Generated
    /\ PositiveRate
    /\ IsDescendant(LastEvent)
    /\ Gt(LastEvent.t, LastEvent.ancestor.ti)
    /\ ~LastEvent.resample.has
    /\ LastEvent.child.has
    /\ Gt(LastEvent.child.val, LastEvent.t)

(* the number of streams event e pushes, and the number it pops *)
Pushes(e) ==
    (IF e.resample.has THEN 1 ELSE 0) + (IF e.child.has THEN 1 ELSE 0)

Pops(e) == IF IsDescendant(e) THEN 1 ELSE 0

(* a bound on the steps a call has left *)
StepsLeft ==
    CASE pc = "sanity" -> 2 * SIZE_MAX + 4
      [] pc = "setup" -> 2 * SIZE_MAX + 3
      [] pc = "warmup" -> SIZE_MAX + 2 + (args.N_skip - n)
      [] pc = "collect" ->
            1 + (IF n < SizeT(N + args.N_skip)
                 THEN SizeT(N + args.N_skip) - n ELSE 0)
      [] OTHER -> 0

Rank == StepsLeft + (IF call = 1 THEN 2 * SIZE_MAX + 5 ELSE 0)

(* C20: every call terminates: the body of the event loop is executed      *)
(* exactly N_skip + N times, each execution draws three variates, pops at  *)
(* most one stream and pushes at most two, and the call then returns.      *)
C20_Termination ==
    /\ Running =>
          /\ Len(events) <= args.N_skip + N
          /\ rng.count = 1 + 3 * Len(events)
          /\ \A j \in 1 .. Len(events) :
                Pops(events[j]) <= 1 /\ Pushes(events[j]) <= 2
    /\ Generated =>
          Len(descendants)
              = Len(LastEvent.queue) - Pops(LastEvent) + Pushes(LastEvent)
    /\ pc = "done" => Len(events) = args.N_skip + N

(* C20, for the calls in which N + N_skip does not wrap *)
C20_TerminationNoWrap ==
    /\ Running =>
          /\ Len(events) <= args.N_skip + N
          /\ rng.count = 1 + 3 * Len(events)
          /\ \A j \in 1 .. Len(events) :
                Pops(events[j]) <= 1 /\ Pushes(events[j]) <= 2
    /\ Generated =>
          Len(descendants)
              = Len(LastEvent.queue) - Pops(LastEvent) + Pushes(LastEvent)
    /\ (pc = "done" /\ NoWrap) => Len(events) = args.N_skip + N

(* every step of a call lowers the bound on the steps it has left: no call *)
(* runs forever                                                            *)
C20_Progress == [][Rank' < Rank /\ Rank' >= 0]_vars

(* the events generated before event j *)
Earlier(j) == {events[i] : i \in 1 .. (j - 1)}

(* the event loop starts from an empty history at time 0: before the first *)
(* step the queue is empty and t = 0, the first event is a background      *)
(* event found with an empty queue, and every descendant event has its     *)
(* ancestor, and a background event, among the events before it            *)
StartsEmpty ==
    /\ (Running /\ events = <<>>) => (descendants = <<>> /\ t = Zero)
    /\ Generated =>
          /\ IsBackground(events[1])
          /\ events[1].queue = <<>>
          /\ \A j \in 1 .. Len(events) :
                IsDescendant(events[j]) =>
                    /\ \E e \in Earlier(j) : IsBackground(e)
                    /\ \E e \in Earlier(j) :
                          /\ e.t = events[j].ancestor.ti
                          /\ e.M = events[j].ancestor.M

(* every emitted time is >= 0 *)
NonNegativeTimes ==
    Generated => \A j \in 1 .. Len(events) : Geq(events[j].t, Zero)

(* C21: the simulation starts from an empty history at time 0: the queue   *)
(* is empty before the first step, the first generated event of every run  *)
(* is a background event, no descendant event is emitted before some       *)
(* background event, and every emitted time is >= 0.                       *)
C21_EmptyStart == StartsEmpty /\ NonNegativeTimes

(* C21, with the emitted times limited to the calls with c > 0 and         *)
(* beta > 0                                                                *)
C21_EmptyStartPositive ==
    StartsEmpty /\ (PositiveLagAndBeta => NonNegativeTimes)

====
